---- MODULE Spec2Model ----
(***************************************************************************)
(* src/assistant/utils.py: the source formatter                            *)
(* (deduplicate_and_format_sources, format_sources) and the search gateway *)
(* (searxng_search).                                                       *)
(*                                                                         *)
(* A Python str is a sequence of one-character strings; a Python dict is a *)
(* function whose DOMAIN is the set of its keys; a list is a sequence of   *)
(* dicts that are distinct objects, so that an assignment to a key of one  *)
(* record changes that element of the sequence and no other.               *)
(***************************************************************************)
EXTENDS Integers, Sequences, FiniteSets, TLC

\* Longest list of records a caller passes or the backend returns.
MaxLen == 3
\* Largest max_tokens_per_source a caller passes.
MaxTokens == 2

(***************************************************************************)
(* The string literals of utils.py.                                        *)
(***************************************************************************)
Banner ==
    <<"S", "o", "u", "r", "c", "e", "s", ":", "\n", "\n">>
SourceLabel ==
    <<"S", "o", "u", "r", "c", "e", " ">>
Rule ==
    <<":", "\n", "=", "=", "=", "\n">>
UrlLabel ==
    <<"U", "R", "L", ":", " ">>
Sep ==
    <<"\n", "=", "=", "=", "\n">>
ContentLabel ==
    <<"M", "o", "s", "t", " ", "r", "e", "l", "e", "v", "a", "n", "t", " ", "c", "o", "n", "t", "e", "n", "t", " ", "f", "r", "o", "m", " ", "s", "o", "u", "r", "c", "e", ":", " ">>
FullLabel ==
    <<"F", "u", "l", "l", " ", "s", "o", "u", "r", "c", "e", " ", "c", "o", "n", "t", "e", "n", "t", " ", "l", "i", "m", "i", "t", "e", "d", " ", "t", "o", " ">>
TokensLabel ==
    <<" ", "t", "o", "k", "e", "n", "s", ":", " ">>
BlockEnd ==
    <<"\n", "\n">>
Marker ==
    <<".", ".", ".", " ", "[", "t", "r", "u", "n", "c", "a", "t", "e", "d", "]">>
WarningLabel ==
    <<"W", "a", "r", "n", "i", "n", "g", ":", " ", "N", "o", " ", "r", "a", "w", "_", "c", "o", "n", "t", "e", "n", "t", " ", "f", "o", "u", "n", "d", " ", "f", "o", "r", " ", "s", "o", "u", "r", "c", "e", " ">>
Bullet ==
    <<"*", " ">>
Colon ==
    <<" ", ":", " ">>
Filler ==
    <<"a", "b", "c", "d", "e", "f", "g", "h", "i", "j", "k", "l", "m", "n", "o", "p", "q", "r", "s", "t", "u", "v", "w", "x", "y", "z">>
Digits ==
    <<"0", "1", "2", "3", "4", "5", "6", "7", "8", "9">>

\* The characters str.strip() removes.
Whitespace == {" ", "\n", "\t"}

(***************************************************************************)
(* Python values.                                                          *)
(***************************************************************************)
\* None, as a value no str is equal to.
None == <<"None">>

\* No exception: the call returned.
NoError == "returned"

KeyError(k) == "KeyError: " \o k

HasKey(d, k) == k \in DOMAIN d

\* d[k] = v
SetItem(d, k, v) == [x \in DOMAIN d \cup {k} |-> IF x = k THEN v ELSE d[x]]

\* d.get(k, default)
Get(d, k, default) == IF HasKey(d, k) THEN d[k] ELSE default

\* s[:n] for n >= 0
Slice(s, n) == SubSeq(s, 1, IF n < Len(s) THEN n ELSE Len(s))

RECURSIVE ToDecimal(_)
\* f"{n}" for an int n >= 0
ToDecimal(n) ==
    IF n < 10 THEN <<Digits[n + 1]>>
    ELSE ToDecimal(n \div 10) \o <<Digits[(n % 10) + 1]>>

RECURSIVE LStrip(_)
LStrip(s) ==
    IF s # <<>> /\ Head(s) \in Whitespace THEN LStrip(Tail(s)) ELSE s

RECURSIVE RStrip(_)
RStrip(s) ==
    IF s # <<>> /\ s[Len(s)] \in Whitespace
    THEN RStrip(SubSeq(s, 1, Len(s) - 1))
    ELSE s

\* s.strip()
Strip(s) == LStrip(RStrip(s))

RECURSIVE JoinTrailing(_, _)
\* Join gone wrong: sep after every part, the last one too.
JoinTrailing(sep, parts) ==
    IF parts = <<>> THEN <<>>
    ELSE parts[1] \o sep \o JoinTrailing(sep, Tail(parts))

RECURSIVE Join(_, _)
\* sep.join(parts)
Join(sep, parts) ==
    IF parts = <<>> THEN <<>>
    ELSE IF Len(parts) = 1 THEN parts[1]
    ELSE parts[1] \o sep \o Join(sep, Tail(parts))

(***************************************************************************)
(* deduplicate_and_format_sources                                          *)
(***************************************************************************)
\* Contains gone wrong: url compared with the last key inserted only.
ContainsLastOnly(unique_sources, url) ==
    /\ unique_sources # <<>>
    /\ unique_sources[Len(unique_sources)].key = url

\* `url in unique_sources`, unique_sources being an insertion-ordered dict
\* kept as the sequence of its (key, value) items.
Contains(unique_sources, url) ==
    \E n \in 1..Len(unique_sources) : unique_sources[n].key = url

\* del d[k]
DelItem(d, k) == [x \in DOMAIN d \ {k} |-> d[x]]

\* DedupStep gone wrong: unique_sources[url] = source whether or not url is
\* a key already, so that the last record of a URL replaces the first.
DedupStepLastWins(st, i) ==
    LET source == st.sources_list[i] IN
    IF ~HasKey(source, "link")
    THEN [st EXCEPT !.raised = KeyError("link")]
    ELSE
      LET s1 == SetItem(source, "url", source["link"]) IN
      IF ~HasKey(s1, "snippet")
      THEN [st EXCEPT !.sources_list[i] = s1, !.raised = KeyError("snippet")]
      ELSE
        LET s2 == SetItem(s1, "content", s1["snippet"]) IN
        [st EXCEPT
           !.sources_list[i] = s2,
           !.unique_sources =
              IF Contains(@, s2["url"])
              THEN [n \in 1..Len(@) |->
                      IF @[n].key = s2["url"]
                      THEN [key |-> s2["url"], value |-> s2] ELSE @[n]]
              ELSE Append(@, [key |-> s2["url"], value |-> s2])]

\* DedupStep gone wrong: the keys renamed with pop, source["url"] =
\* source.pop("link") and source["content"] = source.pop("snippet").
DedupStepPop(st, i) ==
    LET source == st.sources_list[i] IN
    IF ~HasKey(source, "link")
    THEN [st EXCEPT !.raised = KeyError("link")]
    ELSE
      LET s1 == SetItem(DelItem(source, "link"), "url", source["link"]) IN
      IF ~HasKey(s1, "snippet")
      THEN [st EXCEPT !.sources_list[i] = s1, !.raised = KeyError("snippet")]
      ELSE
        LET s2 == SetItem(DelItem(s1, "snippet"), "content", s1["snippet"]) IN
        [st EXCEPT
           !.sources_list[i] = s2,
           !.unique_sources =
              IF Contains(@, s2["url"]) THEN @
              ELSE Append(@, [key |-> s2["url"], value |-> s2])]

\* One pass of the deduplication loop over sources_list[i].  A missing key
\* raises KeyError; the assignments made before it stay in the record.
DedupStep(st, i) ==
    LET source == st.sources_list[i] IN
    IF ~HasKey(source, "link")
    THEN [st EXCEPT !.raised = KeyError("link")]
    ELSE
      LET s1 == SetItem(source, "url", source["link"]) IN
      IF ~HasKey(s1, "snippet")
      THEN [st EXCEPT !.sources_list[i] = s1, !.raised = KeyError("snippet")]
      ELSE
        LET s2 == SetItem(s1, "content", s1["snippet"]) IN
        [st EXCEPT
           !.sources_list[i] = s2,
           !.unique_sources =
              IF Contains(@, s2["url"]) THEN @
              ELSE Append(@, [key |-> s2["url"], value |-> s2])]

RECURSIVE DedupLoop(_, _)
DedupLoop(st, i) ==
    IF i > Len(st.sources_list) \/ st.raised # NoError THEN st
    ELSE DedupLoop(DedupStep(st, i), i + 1)

\* Truncate gone wrong: >= for >, a body of exactly char_limit characters
\* gets the marker.
TruncateAtLimit(raw_content, max_tokens_per_source) ==
    LET char_limit == max_tokens_per_source * 4 IN
    IF Len(raw_content) >= char_limit
    THEN Slice(raw_content, char_limit) \o Marker
    ELSE raw_content

\* The raw-content part of a block.
Truncate(raw_content, max_tokens_per_source) ==
    LET char_limit == max_tokens_per_source * 4 IN
    IF Len(raw_content) > char_limit
    THEN Slice(raw_content, char_limit) \o Marker
    ELSE raw_content

RawContentOf(source) ==
    LET raw_content == Get(source, "raw_content", <<>>) IN
    IF raw_content = None THEN <<>> ELSE raw_content

\* WarningsOf gone wrong: `if not raw_content` for `if raw_content is None`.
WarningsOfFalsy(source) ==
    IF Get(source, "raw_content", <<>>) \in {None, <<>>}
    THEN <<WarningLabel \o source["url"]>>
    ELSE <<>>

\* What the loop body prints for source.
WarningsOf(source) ==
    IF Get(source, "raw_content", <<>>) = None
    THEN <<WarningLabel \o source["url"]>>
    ELSE <<>>

\* FormatStep gone wrong: source.get("title", "") for source["title"].
FormatStepDefaultTitle(st, source, max_tokens_per_source, include_raw_content) ==
    LET head == SourceLabel \o Get(source, "title", <<>>) \o Rule
                \o UrlLabel \o source["url"] \o Sep
                \o ContentLabel \o source["content"] \o Sep
    IN
    IF include_raw_content
    THEN [st EXCEPT
            !.formatted_text =
               @ \o head \o FullLabel \o ToDecimal(max_tokens_per_source)
                 \o TokensLabel
                 \o Truncate(RawContentOf(source), max_tokens_per_source)
                 \o BlockEnd,
            !.printed = @ \o WarningsOf(source)]
    ELSE [st EXCEPT !.formatted_text = @ \o head]

\* One pass of the formatting loop, over one value of unique_sources.
FormatStep(st, source, max_tokens_per_source, include_raw_content) ==
    IF ~HasKey(source, "title")
    THEN [st EXCEPT !.raised = KeyError("title")]
    ELSE
      LET head == SourceLabel \o source["title"] \o Rule
                  \o UrlLabel \o source["url"] \o Sep
                  \o ContentLabel \o source["content"] \o Sep
      IN
      IF include_raw_content
      THEN [st EXCEPT
              !.formatted_text =
                 @ \o head \o FullLabel \o ToDecimal(max_tokens_per_source)
                   \o TokensLabel
                   \o Truncate(RawContentOf(source), max_tokens_per_source)
                   \o BlockEnd,
              !.printed = @ \o WarningsOf(source)]
      ELSE [st EXCEPT !.formatted_text = @ \o head]

RECURSIVE FormatLoop(_, _, _, _, _)
FormatLoop(st, unique_sources, n, max_tokens_per_source, include_raw_content) ==
    IF n > Len(unique_sources) \/ st.raised # NoError THEN st
    ELSE FormatLoop(
           FormatStep(st, unique_sources[n].value,
                      max_tokens_per_source, include_raw_content),
           unique_sources, n + 1, max_tokens_per_source, include_raw_content)

\* The end of the call, after the deduplication loop (d) and the formatting
\* loop (f): the list as the call leaves it, what it printed, and either the
\* returned string or the exception raised.
Outcome(d, f) ==
    IF d.raised # NoError
    THEN [sources_list |-> d.sources_list, printed |-> <<>>,
          raised |-> d.raised, ret |-> <<>>]
    ELSE IF f.raised # NoError
    THEN [sources_list |-> d.sources_list, printed |-> f.printed,
          raised |-> f.raised, ret |-> <<>>]
    ELSE [sources_list |-> d.sources_list, printed |-> f.printed,
          raised |-> NoError, ret |-> Strip(f.formatted_text)]

\* The formatting loop run on what the deduplication loop (d) left.
FormatAfter(d, max_tokens_per_source, include_raw_content) ==
    Outcome(d, FormatLoop([formatted_text |-> Banner, printed |-> <<>>,
                           raised |-> NoError],
                          d.unique_sources, 1,
                          max_tokens_per_source, include_raw_content))

deduplicate_and_format_sources(search_response, max_tokens_per_source, include_raw_content) ==
    FormatAfter(DedupLoop([sources_list |-> search_response,
                           unique_sources |-> <<>>,
                           raised |-> NoError], 1),
                max_tokens_per_source, include_raw_content)

(***************************************************************************)
(* format_sources                                                          *)
(***************************************************************************)
\* The first key the generator misses, reading title before url in each
\* record in turn; "" when none is missing.
RECURSIVE FirstMissing(_)
FirstMissing(search_results) ==
    IF search_results = <<>> THEN ""
    ELSE IF ~HasKey(Head(search_results), "title") THEN "title"
    ELSE IF ~HasKey(Head(search_results), "url") THEN "url"
    ELSE FirstMissing(Tail(search_results))

BulletLine(source) == Bullet \o source["title"] \o Colon \o source["url"]

format_sources(search_results) ==
    IF FirstMissing(search_results) # ""
    THEN [raised |-> KeyError(FirstMissing(search_results)), ret |-> <<>>]
    ELSE [raised |-> NoError,
          ret |-> Join(<<"\n">>,
                       [n \in 1..Len(search_results) |->
                          BulletLine(search_results[n])])]

(***************************************************************************)
(* searxng_search                                                          *)
(***************************************************************************)
\* searxng_search gone wrong: the exception caught and an empty list
\* returned.
searxng_search_swallow(response) ==
    [calls |-> 1, raised |-> NoError, ret |-> response.ret]

\* The call of SearxSearchWrapper.results is made once; what it returns is
\* returned as it is, and what it raises is not caught.
searxng_search(response) ==
    [calls |-> 1, raised |-> response.raised, ret |-> response.ret]

(***************************************************************************)
(* The inputs.                                                             *)
(***************************************************************************)
Body(k) == Slice(Filler, k)

TitleA == <<"A">>
TitleB == <<"B">>
U1 == <<"u", "1">>
U2 == <<"u", "2">>
SnippetX == <<"x">>
SnippetY == <<"y">>

\* Records as the backend builds them: title, link, snippet, and possibly
\* raw_content (None, empty, ending in whitespace, at and over the largest
\* character limit).
BackendRecords ==
    { [title |-> TitleA, link |-> U1, snippet |-> SnippetX],
      [title |-> TitleB, link |-> U1, snippet |-> SnippetY,
       raw_content |-> None],
      [title |-> TitleB, link |-> U2, snippet |-> SnippetY,
       raw_content |-> Body(4 * MaxTokens + 1)],
      [title |-> TitleB, link |-> U1, snippet |-> SnippetX,
       raw_content |-> Body(4 * MaxTokens)],
      [title |-> TitleA, link |-> U1, snippet |-> SnippetY,
       raw_content |-> <<"a", "b", " ">>],
      [title |-> TitleA, link |-> U2, snippet |-> SnippetX,
       raw_content |-> <<>>] }

\* Records only a caller can pass: title missing, snippet missing, and the
\* keys of the documented result shape (title, url, content), link and
\* snippet missing.
OtherRecords ==
    { [link |-> U1, snippet |-> SnippetX],
      [title |-> TitleA, link |-> U1],
      [title |-> TitleA, url |-> U2, content |-> SnippetX] }

CallerRecords == BackendRecords \cup OtherRecords

ListsUpTo(S, n) == UNION { [1..k -> S] : k \in 0..n }

\* The exceptions SearxSearchWrapper.results raises: a failed request, or an
\* error answer of the search service.
BackendErrors == {"ConnectionError", "ValueError"}

\* What one call of SearxSearchWrapper.results with k = num_results =
\* max_results can do.
Responses(max_results) ==
    { [raised |-> e, ret |-> <<>>] : e \in BackendErrors }
    \cup { [raised |-> NoError, ret |-> l] :
             l \in ListsUpTo(BackendRecords, max_results) }

TokenBudgets == 1..MaxTokens

(***************************************************************************)
(* The state: a caller holding one list of records and calling the three   *)
(* functions on it.                                                        *)
(***************************************************************************)
VARIABLES
    results,    \* the caller's list of records, as the calls leave it
    input,      \* the same list as the caller built it or the gateway returned it
    origin,     \* "caller" or "search": where the list came from
    op,         \* the last call: "none", "search", "format", "bullet"
    max_tokens, \* the last call's max_tokens_per_source (0 when it has none)
    include_raw,\* the last call's include_raw_content
    ret,        \* the string the last call returned (<<>> when it raised)
    raised,     \* the exception the last call raised, or NoError
    printed,    \* the lines the last call printed
    backend,    \* what the backend did in the last search
    calls,      \* how many times the last search called the backend
    nformat     \* deduplicate_and_format_sources calls made on the list: 0, 1, 2 for more

vars == <<results, input, origin, op, max_tokens, include_raw, ret, raised,
          printed, backend, calls, nformat>>

Init ==
    /\ results \in ListsUpTo(CallerRecords, MaxLen)
    /\ input = results
    /\ origin = "caller"
    /\ op = "none"
    /\ max_tokens = 0
    /\ include_raw = FALSE
    /\ ret = <<>>
    /\ raised = NoError
    /\ printed = <<>>
    /\ backend = NoError
    /\ calls = 0
    /\ nformat = 0

\* results = searxng_search(query, include_raw_content, max_results), by a
\* caller that holds no records yet.
Search(max_results) ==
    /\ op = "none"
    /\ results = <<>>
    /\ \E response \in Responses(max_results) :
         LET r == searxng_search(response) IN
         /\ results' = r.ret
         /\ input' = r.ret
         /\ raised' = r.raised
         /\ backend' = response.raised
         /\ calls' = r.calls
    /\ origin' = "search"
    /\ op' = "search"
    /\ UNCHANGED <<max_tokens, include_raw, ret, printed, nformat>>

\* deduplicate_and_format_sources(results, max_tokens_per_source,
\* include_raw_content)
Format(max_tokens_per_source, include_raw_content) ==
    /\ \E r \in {deduplicate_and_format_sources(
                   results, max_tokens_per_source, include_raw_content)} :
       /\ results' = r.sources_list
       /\ ret' = r.ret
       /\ raised' = r.raised
       /\ printed' = r.printed
    /\ op' = "format"
    /\ max_tokens' = max_tokens_per_source
    /\ include_raw' = include_raw_content
    /\ nformat' = IF nformat = 0 THEN 1 ELSE 2
    /\ UNCHANGED <<input, origin, backend, calls>>

\* format_sources(results)
BulletSources ==
    /\ \E r \in {format_sources(results)} :
       /\ ret' = r.ret
       /\ raised' = r.raised
    /\ op' = "bullet"
    /\ max_tokens' = 0
    /\ include_raw' = FALSE
    /\ printed' = <<>>
    /\ UNCHANGED <<results, input, origin, backend, calls, nformat>>

Next ==
    \/ \E max_results \in 1..MaxLen : Search(max_results)
    \/ \E t \in TokenBudgets, b \in BOOLEAN : Format(t, b)
    \/ BulletSources

Spec == Init /\ [][Next]_vars

(***************************************************************************)
(* Reading a returned string back, and reading the records of the list as  *)
(* it was before any call.                                                 *)
(***************************************************************************)
OccursAt(s, pat, i) ==
    /\ i + Len(pat) - 1 <= Len(s)
    /\ SubSeq(s, i, i + Len(pat) - 1) = pat

Occurs(s, pat) == \E i \in 1..Len(s) : OccursAt(s, pat, i)

EndsWith(s, pat) ==
    /\ Len(pat) <= Len(s)
    /\ SubSeq(s, Len(s) - Len(pat) + 1, Len(s)) = pat

\* The numbers of P in increasing order.
Sorted(P) ==
    [k \in 1..Cardinality(P) |->
       CHOOSE p \in P : Cardinality({q \in P : q < p}) = k - 1]

\* The text of s from position a to the end of its line.
LineAt(s, a) ==
    LET ends == {e \in a..Len(s) : s[e] = "\n"}
        e == IF ends = {} THEN Len(s) + 1
             ELSE CHOOSE x \in ends : \A y \in ends : x <= y
    IN SubSeq(s, a, e - 1)

\* The URL lines of a report, in the order the report has them.
BlockUrls(s) ==
    LET P == Sorted({i \in 1..Len(s) : OccursAt(s, UrlLabel, i)}) IN
    [k \in 1..Len(P) |-> LineAt(s, P[k] + Len(UrlLabel))]

\* s split at its newlines.
Lines(s) ==
    LET N == Sorted({i \in 1..Len(s) : s[i] = "\n"}) IN
    [k \in 1..(Len(N) + 1) |->
       SubSeq(s, IF k = 1 THEN 1 ELSE N[k - 1] + 1,
                 IF k <= Len(N) THEN N[k] - 1 ELSE Len(s))]

\* A record's URL and content: the backend's link and snippet.
Url(r) == r["link"]
Content(r) == r["snippet"]

\* A record's raw body: empty when raw_content is absent or None.
RawBody(r) ==
    IF HasKey(r, "raw_content") /\ r["raw_content"] # None
    THEN r["raw_content"] ELSE <<>>

WellFormed(r) == {"title", "link", "snippet"} \subseteq DOMAIN r

\* The positions at which a URL is seen for the first time.
FirstSeen(list) ==
    {n \in 1..Len(list) : \A k \in 1..(n - 1) : Url(list[k]) # Url(list[n])}

Retained(list) == Sorted(FirstSeen(list))

\* The first position with the URL of position j.
EarliestOf(list, j) ==
    CHOOSE i \in FirstSeen(list) : Url(list[i]) = Url(list[j])

RemoveAt(list, j) == SubSeq(list, 1, j - 1) \o SubSeq(list, j + 1, Len(list))

\* The header, URL and content lines of record r's block.
HeaderOf(r) ==
    SourceLabel \o r["title"] \o Rule \o UrlLabel \o Url(r) \o Sep
    \o ContentLabel \o Content(r) \o <<"\n", "=", "=", "=">>

\* Record r's block with the given body, under the last call's budget.
BlockOf(r, body) ==
    HeaderOf(r) \o <<"\n">> \o FullLabel \o ToDecimal(max_tokens)
    \o TokensLabel \o body

\* The body of r the truncation rule asks for, under the last call's budget.
ExpectedBody(r) ==
    IF Len(RawBody(r)) > max_tokens * 4
    THEN SubSeq(RawBody(r), 1, max_tokens * 4) \o Marker
    ELSE RawBody(r)

IsLast(list, n) == \A k \in FirstSeen(list) : k <= n

\* The report holds block text for position n exactly as given.
EmittedExactly(n, text) ==
    IF IsLast(input, n) THEN EndsWith(ret, text)
    ELSE Occurs(ret, text \o BlockEnd \o SourceLabel)

\* The same, the whitespace that ends the report being stripped.
EmittedStripped(n, text) ==
    IF IsLast(input, n) THEN EndsWith(ret, RStrip(text))
    ELSE Occurs(ret, text \o BlockEnd \o SourceLabel)

\* deduplicate_and_format_sources was the last call and returned.
Formatted == op = "format" /\ raised = NoError

(***************************************************************************)
(* C1: first-write-wins.  When the formatter returns, for every record     *)
(* whose URL an earlier record has: the block of that URL carries the      *)
(* title and content of the earliest record with it, no block carries the  *)
(* later record's, and the report is the one the list without the later    *)
(* record gives.                                                           *)
(***************************************************************************)
C1_FirstWriteWins ==
    Formatted =>
      \A j \in (1..Len(input)) \ FirstSeen(input) :
        LET i == EarliestOf(input, j) IN
        /\ HasKey(input[i], "title")
        /\ Occurs(ret, HeaderOf(input[i]))
        /\ ( /\ HasKey(input[j], "title")
             /\ <<input[j]["title"], Content(input[j])>>
                  # <<input[i]["title"], Content(input[i])>> )
           => ~Occurs(ret, HeaderOf(input[j]))
        /\ ret = deduplicate_and_format_sources(
                   RemoveAt(input, j), max_tokens, include_raw).ret

C1_Witness ==
    /\ Formatted
    /\ include_raw
    /\ \E j \in (1..Len(input)) \ FirstSeen(input) :
         /\ HasKey(input[j], "title")
         /\ input[j]["title"] # input[EarliestOf(input, j)]["title"]
         /\ Content(input[j]) # Content(input[EarliestOf(input, j)])
         /\ RawBody(input[j]) # <<>>

(***************************************************************************)
(* C2: order preservation.  When the formatter returns, the URL lines of   *)
(* the report are the distinct URLs of the input, each once, in the order  *)
(* in which the input has them first.                                      *)
(***************************************************************************)
C2_OrderPreserved ==
    Formatted =>
      BlockUrls(ret) =
        [k \in 1..Len(Retained(input)) |-> Url(input[Retained(input)[k]])]

C2_Witness ==
    /\ Formatted
    /\ Len(input) = 3
    /\ Url(input[1]) = Url(input[3])
    /\ Url(input[1]) # Url(input[2])

(***************************************************************************)
(* C3 as stated: with include_raw_content, every retained record's raw     *)
(* body is in the report as its first max_tokens_per_source * 4 characters *)
(* and the marker when it is longer than that, and unchanged otherwise.    *)
(***************************************************************************)
C3_BodyEmittedExactly ==
    (Formatted /\ include_raw) =>
      \A n \in FirstSeen(input) :
        RawBody(input[n]) # <<>> =>
          EmittedExactly(n, BlockOf(input[n], ExpectedBody(input[n])))

(***************************************************************************)
(* C3 amended: the same, except that the report is stripped, so that the   *)
(* body of the last block loses the whitespace it ends with.               *)
(***************************************************************************)
C3_BodyEmittedStripped ==
    (Formatted /\ include_raw) =>
      \A n \in FirstSeen(input) :
        EmittedStripped(n, BlockOf(input[n], ExpectedBody(input[n])))

C3_Witness ==
    /\ Formatted
    /\ include_raw
    /\ \E n, k \in FirstSeen(input) :
         /\ Len(RawBody(input[n])) = max_tokens * 4 + 1
         /\ Len(RawBody(input[k])) = max_tokens * 4

NonePositions(list) ==
    Sorted({n \in FirstSeen(list) :
              HasKey(list[n], "raw_content") /\ list[n]["raw_content"] = None})

C5_InputNotMutated ==
    op = "format" => results = input

(***************************************************************************)
(* C6 as stated: every record the gateway returns has title, url and       *)
(* content, and neither format_sources nor the formatter, called on the    *)
(* returned list in any order, raises for a missing field.                 *)
(***************************************************************************)
C6_SearchReturnsNormalized ==
    (origin = "search" /\ backend = NoError) =>
      /\ op = "search" =>
           \A n \in 1..Len(results) :
             {"title", "url", "content"} \subseteq DOMAIN results[n]
      /\ op \in {"format", "bullet"} => raised = NoError

C8_FailFastEveryRecord ==
    (op = "format" /\ \E n \in 1..Len(input) : ~WellFormed(input[n]))
      => raised # NoError

\* The exception the amended C8 expects of a list.
ExpectedError(list) ==
    LET bad == {n \in 1..Len(list) :
                  ~HasKey(list[n], "link") \/ ~HasKey(list[n], "snippet")}
    IN
    IF bad # {}
    THEN IF HasKey(list[Sorted(bad)[1]], "link")
         THEN KeyError("snippet") ELSE KeyError("link")
    ELSE IF \E n \in FirstSeen(list) : ~HasKey(list[n], "title")
    THEN KeyError("title")
    ELSE NoError

(***************************************************************************)
(* C8 amended: the formatter raises a KeyError, and returns no report,     *)
(* exactly when some record at any position lacks link or snippet, or a    *)
(* record that is the first with its URL lacks title; a record that lacks  *)
(* only title and repeats an earlier URL is dropped without an error.      *)
(***************************************************************************)
C8_FailFastWhereRead ==
    op = "format" =>
      /\ raised = ExpectedError(input)
      /\ raised # NoError => ret = <<>>

C8_Witness ==
    /\ Formatted
    /\ \E n \in 1..Len(input) : ~HasKey(input[n], "title")

(***************************************************************************)
(* C9: on records that have title and url, format_sources returns, for an  *)
(* empty list the empty string, and otherwise one line "* title : url" per *)
(* record in input order, records of the same URL included, with newlines  *)
(* between the lines and none after the last.                              *)
(***************************************************************************)
C9_BulletLines ==
    (op = "bullet" /\ \A n \in 1..Len(results) :
                        {"title", "url"} \subseteq DOMAIN results[n])
      =>
      /\ raised = NoError
      /\ results = <<>> => ret = <<>>
      /\ results # <<>> =>
           Lines(ret) =
             [n \in 1..Len(results) |->
                Bullet \o results[n]["title"] \o Colon \o results[n]["url"]]

C9_Witness ==
    /\ op = "bullet"
    /\ raised = NoError
    /\ Len(results) = 3
    /\ results[1]["url"] = results[3]["url"]
    /\ results[1]["title"] # results[2]["title"]

(***************************************************************************)
(* C10: repeatability.  Every call of the formatter on the list, however   *)
(* many calls came before it, returns or raises what a call on the list as *)
(* it first was does with the same max_tokens_per_source and               *)
(* include_raw_content.                                                    *)
(***************************************************************************)
C10_Repeatable ==
    op = "format" =>
      LET first == deduplicate_and_format_sources(input, max_tokens, include_raw)
      IN ret = first.ret /\ raised = first.raised

C10_Witness ==
    /\ Formatted
    /\ nformat = 2
    /\ results # input
    /\ Len(input) >= 2
====
